---- MODULE Spec2Model ----
(***************************************************************************)
(* Review Analytics API (spreetail_assesment/main.py).                     *)
(*                                                                         *)
(* A Python str is a sequence of one-character strings; a list is a        *)
(* sequence; a dict of the store is a record.  Durations are integers in   *)
(* milliseconds (round(..., 3) of seconds) and the average is an integer   *)
(* in hundredths of a second (round(..., 2)).                              *)
(***************************************************************************)
EXTENDS Integers, Sequences, FiniteSets, TLC

(* ------------------------------ bounds --------------------------------- *)
\* successful ingestions per run of the service
MaxReviews == 3
\* fragments concatenated into a review text handed to the classifier
MaxFrags == 3
\* comma-separated tokens in a content of the classification service
MaxTokens == 4
\* length of a tag list handed to top_k_tags
MaxTagListLen == 5
\* largest k handed to top_k_tags
MaxK == 4
\* records of a store handed to get_summary directly
MaxStoreLen == 3
\* requests in flight on the event loop
NumAnalyze == 2
NumSummary == 1

(* ----------------------------- characters ------------------------------ *)
UpperAlpha == <<"A","B","C","D","E","F","G","H","I","J","K","L","M",
                "N","O","P","Q","R","S","T","U","V","W","X","Y","Z">>
LowerAlpha == <<"a","b","c","d","e","f","g","h","i","j","k","l","m",
                "n","o","p","q","r","s","t","u","v","w","x","y","z">>
\* str.isspace characters that occur in the inputs
Whitespace == {" ", "\t", "\n"}

\* str.lower on one character
LowerChar(c) ==
  IF \E i \in 1..Len(UpperAlpha) : UpperAlpha[i] = c
  THEN LowerAlpha[CHOOSE i \in 1..Len(UpperAlpha) : UpperAlpha[i] = c]
  ELSE c

\* str.lower
Lower(s) == [i \in 1..Len(s) |-> LowerChar(s[i])]

\* s.lstrip(chars) / s.rstrip(chars) / s.strip(chars): drop every leading
\* (trailing) character that is in chars
RECURSIVE LStrip(_, _)
LStrip(s, chars) ==
  IF Len(s) > 0 /\ s[1] \in chars THEN LStrip(Tail(s), chars) ELSE s

RECURSIVE RStrip(_, _)
RStrip(s, chars) ==
  IF Len(s) > 0 /\ s[Len(s)] \in chars
  THEN RStrip(SubSeq(s, 1, Len(s) - 1), chars)
  ELSE s

Strip(s, chars) == RStrip(LStrip(s, chars), chars)

\* needle in hay
Contains(hay, needle) ==
  \E i \in 1..(Len(hay) - Len(needle) + 1) :
    SubSeq(hay, i, i + Len(needle) - 1) = needle

\* s.replace(c, '')
Remove(s, c) == SelectSeq(s, LAMBDA x : x # c)

\* s.split(sep) for a one-character sep: always at least one piece
RECURSIVE Split(_, _)
Split(s, sep) ==
  IF \E i \in 1..Len(s) : s[i] = sep
  THEN LET i == CHOOSE j \in 1..Len(s) :
                  s[j] = sep /\ \A m \in 1..(j - 1) : s[m] # sep
       IN <<SubSeq(s, 1, i - 1)>> \o Split(SubSeq(s, i + 1, Len(s)), sep)
  ELSE <<s>>

\* lst[:n] for n >= 0
Take(lst, n) == SubSeq(lst, 1, IF n < Len(lst) THEN n ELSE Len(lst))

(* ------------------------------ keywords ------------------------------- *)
kw_late == <<"l","a","t","e">>
kw_delay == <<"d","e","l","a","y">>
kw_broken == <<"b","r","o","k","e","n">>
kw_not_working == <<"n","o","t"," ","w","o","r","k","i","n","g">>
kw_refund == <<"r","e","f","u","n","d">>
kw_return == <<"r","e","t","u","r","n">>

\* the fixed tags of the fallback, as character sequences
tag_late_delivery == <<"l","a","t","e","_","d","e","l","i","v","e","r","y">>
tag_shipping_delay == <<"s","h","i","p","p","i","n","g","_","d","e","l","a","y">>
tag_defective_item == <<"d","e","f","e","c","t","i","v","e","_","i","t","e","m">>
tag_product_failure == <<"p","r","o","d","u","c","t","_","f","a","i","l","u","r","e">>
tag_refund_request == <<"r","e","f","u","n","d","_","r","e","q","u","e","s","t">>
tag_customer_service == <<"c","u","s","t","o","m","e","r","_","s","e","r","v","i","c","e">>
tag_general_feedback == <<"g","e","n","e","r","a","l","_","f","e","e","d","b","a","c","k">>

(* ------------------------ the tag classifier --------------------------- *)
\* os.getenv: None when the variable is unset, else its value
None == <<"None">>
Truthy(v) == v # None /\ Len(v) > 0

\* The outcome of openai.ChatCompletion.create and of reading
\* response.choices[0].message.content: the call raises, the response has
\* no choice (IndexError), the content is None (AttributeError on .strip()),
\* or the content is a string.
Outcome(kind, content) == [kind |-> kind, content |-> content]
FailKinds == {"raise", "no_choices", "null_content"}

\* faulty variant: the single quotes are not stripped
ParseTokens_no_single_quote(pieces) ==
  LET kept == SelectSeq(pieces, LAMBDA t : Len(Strip(t, Whitespace)) > 0)
  IN [i \in 1..Len(kept) |-> Strip(Strip(kept[i], Whitespace), {"\""})]

\* the list comprehension of the parse: the tokens t with t.strip() non-empty,
\* each stripped of whitespace, then of double quotes, then of single quotes
ParseTokens(pieces) ==
  LET kept == SelectSeq(pieces, LAMBDA t : Len(Strip(t, Whitespace)) > 0)
  IN [i \in 1..Len(kept) |->
        Strip(Strip(Strip(kept[i], Whitespace), {"\""}), {"'"})]

\* faulty variant: the tags are not truncated
ParseTags_no_truncation(content) ==
  LET ai_output == Strip(content, Whitespace)
  IN ParseTokens(Split(Remove(Remove(ai_output, "["), "]"), ","))

\* the success path: ai_output = content.strip(); brackets removed; split on
\* commas; tokens parsed; tags[:3]
ParseTags(content) ==
  LET ai_output == Strip(content, Whitespace)
  IN Take(ParseTokens(Split(Remove(Remove(ai_output, "["), "]"), ",")), 3)

\* faulty variant: the broken-item rule is tried before the late rule
FallbackTags_broken_first(review_text) ==
  LET lower_text == Lower(review_text)
  IN IF Contains(lower_text, kw_broken) \/ Contains(lower_text, kw_not_working)
     THEN <<tag_defective_item, tag_product_failure>>
     ELSE IF Contains(lower_text, kw_late) \/ Contains(lower_text, kw_delay)
     THEN <<tag_late_delivery, tag_shipping_delay>>
     ELSE IF Contains(lower_text, kw_refund) \/ Contains(lower_text, kw_return)
     THEN <<tag_refund_request, tag_customer_service>>
     ELSE <<tag_general_feedback>>

\* the fallback mock logic
FallbackTags(review_text) ==
  LET lower_text == Lower(review_text)
  IN IF Contains(lower_text, kw_late) \/ Contains(lower_text, kw_delay)
     THEN <<tag_late_delivery, tag_shipping_delay>>
     ELSE IF Contains(lower_text, kw_broken) \/ Contains(lower_text, kw_not_working)
     THEN <<tag_defective_item, tag_product_failure>>
     ELSE IF Contains(lower_text, kw_refund) \/ Contains(lower_text, kw_return)
     THEN <<tag_refund_request, tag_customer_service>>
     ELSE <<tag_general_feedback>>

\* faulty variant: only the API's own errors are caught (IndexError and AttributeError
\* leave the function)
Caught_api_errors_only(kind) == kind = "raise"

\* except Exception: every failure of the try block is caught
Caught(kind) == TRUE

\* get_ai_tags: the tags, the path that produced them, and whether an
\* exception left the function
get_ai_tags(review_text, key, outcome) ==
  IF Truthy(key) /\ outcome.kind = "content"
  THEN [raised |-> FALSE, path |-> "ai", tags |-> ParseTags(outcome.content)]
  ELSE IF Truthy(key) /\ ~Caught(outcome.kind)
  THEN [raised |-> TRUE, path |-> "ai", tags |-> <<>>]
  ELSE [raised |-> FALSE, path |-> "fallback", tags |-> FallbackTags(review_text)]

(* ---------------------- the frequency aggregator ----------------------- *)
\* the dict freq after the loop: (tag, count) items in insertion order, which
\* is the order of first occurrence
RECURSIVE Freq(_)
Freq(tag_list) ==
  IF tag_list = <<>> THEN <<>>
  ELSE LET freq == Freq(SubSeq(tag_list, 1, Len(tag_list) - 1))
           tag == tag_list[Len(tag_list)]
       IN IF \E i \in 1..Len(freq) : freq[i][1] = tag
          THEN [i \in 1..Len(freq) |->
                  IF freq[i][1] = tag THEN <<tag, freq[i][2] + 1>> ELSE freq[i]]
          ELSE Append(freq, <<tag, 1>>)

Reverse(s) == [i \in 1..Len(s) |-> s[Len(s) + 1 - i]]

\* a stable ascending sort by count: insert each item after the items whose
\* count is not larger
RECURSIVE StableSortAsc(_)
StableSortAsc(items) ==
  IF items = <<>> THEN <<>>
  ELSE LET sorted == StableSortAsc(SubSeq(items, 1, Len(items) - 1))
           x == items[Len(items)]
           n == Cardinality({i \in 1..Len(sorted) : sorted[i][2] <= x[2]})
       IN SubSeq(sorted, 1, n) \o <<x>> \o SubSeq(sorted, n + 1, Len(sorted))

\* faulty variant: an ascending sort reversed afterwards, which reverses the ties
SortedByCountReverse_unstable(items) == Reverse(StableSortAsc(items))

\* sorted(items, key=count, reverse=True): list.sort reverses the list, sorts
\* it stably ascending and reverses the result, so equal counts keep their order
SortedByCountReverse(items) == Reverse(StableSortAsc(Reverse(items)))

top_k_tags(tag_list, k) == Take(SortedByCountReverse(Freq(tag_list)), k)

(* --------------------------- the handlers ------------------------------ *)
\* faulty variant: the stored tags are lowercased
Record_lowercased(text, tags, elapsed) ==
  [text |-> text, tags |-> [i \in 1..Len(tags) |-> Lower(tags[i])],
   processing_time |-> elapsed]

\* a record of the store
Record(text, tags, elapsed) ==
  [text |-> text, tags |-> tags, processing_time |-> elapsed]

\* the JSON object of a POST /analyze: review_text is absent or a string
Payload(present, text) == [present |-> present, review_text |-> text]

\* payload.get("review_text", "")
PayloadGet(payload) == IF payload.present THEN payload.review_text ELSE <<>>

\* the responses
ErrorResponse == [kind |-> "error"]
ServerError == [kind |-> "http500"]
MessageResponse == [kind |-> "message"]
AnalyzeResponse(text, tags, elapsed) ==
  [kind |-> "ok", review_text |-> text, tags |-> tags, processing_time |-> elapsed]
SummaryResponse(total, top, avg) ==
  [kind |-> "summary", total_reviews |-> total, top_tags |-> top,
   avg_processing_time |-> avg]

\* faulty variant: the record is put in front
StoreAppend_in_front(db, record) == <<record>> \o db

\* reviews_db.append(record)
StoreAppend(db, record) == Append(db, record)

\* faulty variant: review_text is not stripped before the emptiness test
analyze_review_no_strip(payload, key, outcome, elapsed, db) ==
  LET review_text == PayloadGet(payload)
  IN IF Len(review_text) = 0
     THEN [response |-> ErrorResponse, db |-> db, classified |-> FALSE]
     ELSE LET got == get_ai_tags(review_text, key, outcome)
          IN [response |-> AnalyzeResponse(review_text, got.tags, elapsed),
              db |-> StoreAppend(db, Record(review_text, got.tags, elapsed)),
              classified |-> TRUE]

\* analyze_review after the body has been read: the response, the store it
\* leaves, and whether get_ai_tags was called.  An exception leaving
\* get_ai_tags leaves the handler too (a 500, nothing appended).
analyze_review(payload, key, outcome, elapsed, db) ==
  LET review_text == Strip(PayloadGet(payload), Whitespace)
  IN IF Len(review_text) = 0
     THEN [response |-> ErrorResponse, db |-> db, classified |-> FALSE]
     ELSE LET got == get_ai_tags(review_text, key, outcome)
          IN IF got.raised
             THEN [response |-> ServerError, db |-> db, classified |-> TRUE]
             ELSE [response |-> AnalyzeResponse(review_text, got.tags, elapsed),
                   db |-> StoreAppend(db, Record(review_text, got.tags, elapsed)),
                   classified |-> TRUE]

\* [tag for entry in reviews_db for tag in entry["tags"]]
RECURSIVE AllTags(_)
AllTags(db) ==
  IF db = <<>> THEN <<>>
  ELSE AllTags(SubSeq(db, 1, Len(db) - 1)) \o db[Len(db)].tags

\* sum(r["processing_time"] for r in reviews_db), in milliseconds
RECURSIVE SumTimes(_)
SumTimes(db) ==
  IF db = <<>> THEN 0
  ELSE SumTimes(SubSeq(db, 1, Len(db) - 1)) + db[Len(db)].processing_time

\* round(num / den) to the nearest integer, ties to even (Python rounds the
\* binary float, which differs from this only at exact decimal ties)
RoundDiv(num, den) ==
  LET q == num \div den
      r == num % den
  IN IF 2 * r < den THEN q
     ELSE IF 2 * r > den THEN q + 1
     ELSE IF q % 2 = 0 THEN q ELSE q + 1

\* round(sum / total_reviews, 2): hundredths of a second from milliseconds
AvgTime(sum_ms, total) == RoundDiv(sum_ms, 10 * total)

\* faulty variant: total_reviews counts the tags
get_summary_counts_tags(db) ==
  IF db = <<>>
  THEN MessageResponse
  ELSE LET all_tags == AllTags(db)
           total_reviews == Len(all_tags)
           avg_processing_time == AvgTime(SumTimes(db), Len(db))
           top_tags == top_k_tags(all_tags, 3)
       IN SummaryResponse(total_reviews, top_tags, avg_processing_time)

get_summary(db) ==
  IF db = <<>>
  THEN MessageResponse
  ELSE LET all_tags == AllTags(db)
           total_reviews == Len(db)
           avg_processing_time == AvgTime(SumTimes(db), total_reviews)
           top_tags == top_k_tags(all_tags, 3)
       IN SummaryResponse(total_reviews, top_tags, avg_processing_time)

(* ------------------------------- state --------------------------------- *)
VARIABLES
  reviews_db,        \* the in-memory store
  api_key,           \* the environment's OPENAI_API_KEY (None when unset)
  req,               \* the request (or call) served last
  resp,              \* its response (or result)
  classifier_calls,  \* history: calls of get_ai_tags so far
  ingested,          \* history: POST /analyze with a non-blank review_text so far
  responses,         \* history: the tags of every successful /analyze response
  pc,                \* event loop: each request's position in its handler
  local,             \* event loop: each request's local variables
  running,           \* event loop: the coroutine holding the loop, 0 when idle
  owner              \* history: the request that appended each record

vars == <<reviews_db, api_key, req, resp, classifier_calls, ingested, responses,
          pc, local, running, owner>>
serviceVars == <<reviews_db, api_key, classifier_calls, ingested, responses>>
loopVars == <<pc, local, running, owner>>

\* a request body whose review_text is missing or, trimmed, empty
MissingOrBlank(payload) ==
  \/ ~payload.present
  \/ \A i \in 1..Len(payload.review_text) : payload.review_text[i] \in Whitespace

NoRequest == [op |-> "none"]
NoResponse == [kind |-> "none"]
NoCall == Outcome("not_called", <<>>)

(* ---------------- the service, one request at a time ------------------- *)
txt_late_broken == <<" ","L","a","t","e"," ","b","r","o","k","e","n","\t">>
txt_ok == <<"o","k">>
txt_blank == <<" ","\t"," ">>

\* the request bodies: review_text absent, empty, blank, or a review
Payloads ==
  {Payload(FALSE, <<>>), Payload(TRUE, <<>>), Payload(TRUE, txt_blank),
   Payload(TRUE, txt_late_broken), Payload(TRUE, txt_ok)}

\* ["late", Slow, 'x', "y", "z"]
content_five == <<"[","\"","l","a","t","e","\"",","," ","S","l","o","w",",",
                  " ","'","x","'",","," ","\"","y","\"",","," ","\"","z","\"","]">>

ServiceOutcomes ==
  {Outcome(k, <<>>) : k \in FailKinds} \cup {Outcome("content", content_five)}

\* the values of OPENAI_API_KEY: unset, empty, set
KeyValues == {None, <<>>, <<"s","k">>}

\* elapsed times (ms) that time.time() can measure around the classification
\* (a wall clock stepping backwards is not drawn)
ElapsedChoices == {0, 12}

\* What the environment decides during one POST /analyze: the service's
\* outcome, when the handler reaches the external call, and the elapsed time,
\* when the handler reaches the classifier.
Blank(payload) == Len(Strip(PayloadGet(payload), Whitespace)) = 0
EnvChoices(payload, key) ==
  IF Blank(payload) THEN {<<NoCall, 0>>}
  ELSE IF ~Truthy(key) THEN {NoCall} \X ElapsedChoices
  ELSE ServiceOutcomes \X ElapsedChoices

Init ==
  /\ reviews_db = <<>>
  /\ api_key \in KeyValues
  /\ req = NoRequest
  /\ resp = NoResponse
  /\ classifier_calls = 0
  /\ ingested = 0
  /\ responses = <<>>
  /\ pc = <<>>
  /\ local = <<>>
  /\ running = 0
  /\ owner = <<>>

\* POST /analyze
Analyze ==
  \E payload \in Payloads :
    \E env \in EnvChoices(payload, api_key) :
      LET r == analyze_review(payload, api_key, env[1], env[2], reviews_db)
      IN /\ Blank(payload) \/ ingested < MaxReviews
         /\ req' = [op |-> "analyze", payload |-> payload, key |-> api_key,
                    outcome |-> env[1], elapsed |-> env[2]]
         /\ resp' = r.response
         /\ reviews_db' = r.db
         /\ classifier_calls' = classifier_calls + (IF r.classified THEN 1 ELSE 0)
         /\ ingested' = ingested + (IF MissingOrBlank(payload) THEN 0 ELSE 1)
         /\ responses' = IF r.response.kind = "ok"
                         THEN Append(responses, r.response.tags)
                         ELSE responses
         /\ UNCHANGED <<api_key, loopVars>>

\* GET /summary
Summary ==
  /\ req' = [op |-> "summary"]
  /\ resp' = get_summary(reviews_db)
  /\ UNCHANGED <<serviceVars, loopVars>>

\* the operator sets, changes or unsets OPENAI_API_KEY between requests
SetEnv ==
  \E k \in KeyValues \ {api_key} :
    /\ api_key' = k
    /\ req' = [op |-> "setenv"]
    /\ resp' = NoResponse
    /\ UNCHANGED <<reviews_db, classifier_calls, ingested, responses, loopVars>>

Next == Analyze \/ Summary \/ SetEnv

Spec == Init /\ [][Next]_vars

(* ------------- the pure functions, called on drawn inputs -------------- *)
\* all sequences over S of length at most n
SeqsUpTo(S, n) == UNION {[1..m -> S] : m \in 0..n}

\* the concatenation of a sequence of strings, sep between them
RECURSIVE Join(_, _)
Join(parts, sep) ==
  IF parts = <<>> THEN <<>>
  ELSE IF Len(parts) = 1 THEN parts[1]
  ELSE parts[1] \o sep \o Join(Tail(parts), sep)

\* review texts: up to MaxFrags of these fragments, concatenated
Fragments ==
  {<<"l","a","t","e">>, <<"d","e","L","A","Y">>, <<"B","r","o","k","e","n">>,
   <<"n","o","t">>, <<" ">>, <<"w","o","r","k","i","n","g">>,
   <<"R","E","F","U","N","D">>, <<"l","a">>, <<"t","E">>}
Texts == {Join(fs, <<>>) : fs \in SeqsUpTo(Fragments, MaxFrags)}

\* contents of the classification service: up to MaxTokens of these tokens,
\* comma-separated, bare or inside brackets
\*   "la]te"   _'slow'_   Late   "_x_"   '"y"'   (empty)
Tokens ==
  {<<"\"","l","a","]","t","e","\"">>, <<" ","'","s","l","o","w","'"," ">>,
   <<"L","a","t","e">>, <<"\""," ","x"," ","\"">>,
   <<"'","\"","y","\"","'">>, <<>>}
Wrappers == {<<<<>>, <<>>>>, <<<<"[">>, <<"]", "\n">>>>}
Contents ==
  {w[1] \o Join(ts, <<",">>) \o w[2] :
     ts \in SeqsUpTo(Tokens, MaxTokens) \ {<<>>}, w \in Wrappers}

\* the (key, outcome) pairs the drawn review texts are classified under
FallbackEnvs ==
  {<<None, NoCall>>, <<<<>>, Outcome("content", content_five)>>,
   <<<<"s","k">>, Outcome("null_content", <<>>)>>}

\* calls that take the fallback, on every drawn text
FallbackCalls ==
  {[op |-> "get_ai_tags", review_text |-> t, key |-> e[1], outcome |-> e[2]] :
     t \in Texts, e \in FallbackEnvs}

\* calls that parse a content of the service
ParseCalls ==
  {[op |-> "get_ai_tags", review_text |-> txt_ok, key |-> <<"s","k">>,
    outcome |-> Outcome("content", c)] : c \in Contents}

\* tag lists and k for top_k_tags
ShortTags == {<<"a">>, <<"b">>, <<"c">>, <<"d">>}
TopKCalls ==
  {[op |-> "top_k_tags", tag_list |-> l, k |-> k] :
     l \in SeqsUpTo(ShortTags, MaxTagListLen), k \in 0..MaxK}

\* stores for get_summary: records whose tags are lists a classification can
\* return (at most three tags)
StoreTagLists ==
  {<<>>, <<<<"a">>>>, <<<<"b">>, <<"a">>>>, <<<<"c">>, <<"b">>, <<"a">>>>,
   <<<<"d">>, <<"d">>, <<"c">>>>}
StoreRecords ==
  {Record(txt_ok, tl, e) : tl \in StoreTagLists, e \in ElapsedChoices}
SummaryCalls ==
  {[op |-> "get_summary", db |-> db] : db \in SeqsUpTo(StoreRecords, MaxStoreLen)}

FnInit ==
  /\ \/ req \in FallbackCalls
     \/ req \in ParseCalls
     \/ req \in TopKCalls
     \/ req \in SummaryCalls
  /\ resp = NoResponse
  /\ reviews_db = <<>>
  /\ api_key = None
  /\ classifier_calls = 0
  /\ ingested = 0
  /\ responses = <<>>
  /\ pc = <<>>
  /\ local = <<>>
  /\ running = 0
  /\ owner = <<>>

CallClassify ==
  /\ req.op = "get_ai_tags"
  /\ resp = NoResponse
  /\ resp' = [kind |-> "tags",
              got |-> get_ai_tags(req.review_text, req.key, req.outcome)]
  /\ UNCHANGED <<req, serviceVars, loopVars>>

CallTopK ==
  /\ req.op = "top_k_tags"
  /\ resp = NoResponse
  /\ resp' = [kind |-> "top", top |-> top_k_tags(req.tag_list, req.k)]
  /\ UNCHANGED <<req, serviceVars, loopVars>>

CallSummary ==
  /\ req.op = "get_summary"
  /\ resp = NoResponse
  /\ resp' = get_summary(req.db)
  /\ UNCHANGED <<req, serviceVars, loopVars>>

FnNext == CallClassify \/ CallTopK \/ CallSummary

FnSpec == FnInit /\ [][FnNext]_vars

(* ---------------- concurrent requests on the event loop --------------- *)
\* Both handlers are coroutines of one event loop.  A coroutine that holds the
\* loop keeps it until it awaits or returns; the loop then resumes any ready one.
AnalyzeIds == 1..NumAnalyze
SummaryIds == (NumAnalyze + 1)..(NumAnalyze + NumSummary)
Coroutines == AnalyzeIds \cup SummaryIds

ConcPayloads ==
  {Payload(TRUE, txt_blank), Payload(TRUE, txt_late_broken), Payload(TRUE, txt_ok)}

InitLocal ==
  [payload |-> Payload(FALSE, <<>>), review_text |-> <<>>, tags |-> <<>>,
   elapsed |-> 0, all_tags |-> <<>>, total_reviews |-> 0,
   avg_processing_time |-> 0, top_tags |-> <<>>, response |-> NoResponse]

ConcInit ==
  /\ reviews_db = <<>>
  /\ api_key = None
  /\ req = NoRequest
  /\ resp = NoResponse
  /\ classifier_calls = 0
  /\ ingested = 0
  /\ responses = <<>>
  /\ pc = [c \in Coroutines |-> IF c \in AnalyzeIds THEN "a65" ELSE "s83"]
  /\ local = [c \in Coroutines |-> InitLocal]
  /\ running = 0
  /\ owner = <<>>

\* faulty variant: every line yields the loop
IsAwaitPoint_every_line(label) == TRUE

\* the lines that await: only `payload = await request.json()`
IsAwaitPoint(label) == label = "a65"

CanRun(c) == running = 0 \/ running = c

\* c executes the line at label `at` and moves to `to`
Goto(c, at, to) ==
  /\ pc' = [pc EXCEPT ![c] = to]
  /\ running' = IF IsAwaitPoint(at) \/ to = "done" THEN 0 ELSE c

\* line 65: payload = await request.json()
A65(c) ==
  /\ pc[c] = "a65" /\ CanRun(c)
  /\ \E payload \in ConcPayloads :
       local' = [local EXCEPT ![c].payload = payload]
  /\ Goto(c, "a65", "a66")
  /\ UNCHANGED <<reviews_db, owner>>

\* lines 66-69: strip, and return the error when nothing is left
A66(c) ==
  /\ pc[c] = "a66" /\ CanRun(c)
  /\ LET review_text == Strip(PayloadGet(local[c].payload), Whitespace)
     IN IF Len(review_text) = 0
        THEN /\ local' = [local EXCEPT ![c].response = ErrorResponse]
             /\ Goto(c, "a66", "done")
        ELSE /\ local' = [local EXCEPT ![c].review_text = review_text]
             /\ Goto(c, "a66", "a71")
  /\ UNCHANGED <<reviews_db, owner>>

\* lines 71-73: the timed classification
A71(c) ==
  /\ pc[c] = "a71" /\ CanRun(c)
  /\ \E env \in EnvChoices(local[c].payload, api_key) :
       LET got == get_ai_tags(local[c].review_text, api_key, env[1])
       IN IF got.raised
          THEN /\ local' = [local EXCEPT ![c].response = ServerError]
               /\ Goto(c, "a71", "done")
          ELSE /\ local' = [local EXCEPT ![c].tags = got.tags, ![c].elapsed = env[2]]
               /\ Goto(c, "a71", "a75")
  /\ UNCHANGED <<reviews_db, owner>>

\* line 75: reviews_db.append(...)
A75(c) ==
  /\ pc[c] = "a75" /\ CanRun(c)
  /\ reviews_db' = StoreAppend(reviews_db,
                     Record(local[c].review_text, local[c].tags, local[c].elapsed))
  /\ owner' = Append(owner, c)
  /\ Goto(c, "a75", "a78")
  /\ UNCHANGED local

\* line 78: the response
A78(c) ==
  /\ pc[c] = "a78" /\ CanRun(c)
  /\ local' = [local EXCEPT ![c].response =
                 AnalyzeResponse(local[c].review_text, local[c].tags, local[c].elapsed)]
  /\ Goto(c, "a78", "done")
  /\ UNCHANGED <<reviews_db, owner>>

\* lines 83-84: the message when the store is empty
S83(c) ==
  /\ pc[c] = "s83" /\ CanRun(c)
  /\ IF reviews_db = <<>>
     THEN /\ local' = [local EXCEPT ![c].response = MessageResponse]
          /\ Goto(c, "s83", "done")
     ELSE /\ local' = local
          /\ Goto(c, "s83", "s86")
  /\ UNCHANGED <<reviews_db, owner>>

\* line 86: all_tags
S86(c) ==
  /\ pc[c] = "s86" /\ CanRun(c)
  /\ local' = [local EXCEPT ![c].all_tags = AllTags(reviews_db)]
  /\ Goto(c, "s86", "s87")
  /\ UNCHANGED <<reviews_db, owner>>

\* line 87: total_reviews
S87(c) ==
  /\ pc[c] = "s87" /\ CanRun(c)
  /\ local' = [local EXCEPT ![c].total_reviews = Len(reviews_db)]
  /\ Goto(c, "s87", "s88")
  /\ UNCHANGED <<reviews_db, owner>>

\* line 88: avg_processing_time
S88(c) ==
  /\ pc[c] = "s88" /\ CanRun(c)
  /\ local' = [local EXCEPT ![c].avg_processing_time =
                 AvgTime(SumTimes(reviews_db), local[c].total_reviews)]
  /\ Goto(c, "s88", "s89")
  /\ UNCHANGED <<reviews_db, owner>>

\* line 89: top_tags
S89(c) ==
  /\ pc[c] = "s89" /\ CanRun(c)
  /\ local' = [local EXCEPT ![c].top_tags = top_k_tags(local[c].all_tags, 3)]
  /\ Goto(c, "s89", "s91")
  /\ UNCHANGED <<reviews_db, owner>>

\* lines 91-95: the response
S91(c) ==
  /\ pc[c] = "s91" /\ CanRun(c)
  /\ local' = [local EXCEPT ![c].response =
                 SummaryResponse(local[c].total_reviews, local[c].top_tags,
                                 local[c].avg_processing_time)]
  /\ Goto(c, "s91", "done")
  /\ UNCHANGED <<reviews_db, owner>>

ConcNext ==
  \E c \in Coroutines :
    /\ \/ A65(c) \/ A66(c) \/ A71(c) \/ A75(c) \/ A78(c)
       \/ S83(c) \/ S86(c) \/ S87(c) \/ S88(c) \/ S89(c) \/ S91(c)
    /\ UNCHANGED <<api_key, req, resp, classifier_calls, ingested, responses>>

ConcSpec == ConcInit /\ [][ConcNext]_vars

(* ------------------- claims on the pure functions ---------------------- *)
\* kw occurs in text, letter case ignored
MatchesIgnoringCase(text, kw) ==
  \E i \in 1..Len(text) :
    /\ i + Len(kw) - 1 <= Len(text)
    /\ \A j \in 1..Len(kw) : LowerChar(text[i + j - 1]) = LowerChar(kw[j])

LateRule(text) == MatchesIgnoringCase(text, kw_late) \/ MatchesIgnoringCase(text, kw_delay)
BrokenRule(text) ==
  MatchesIgnoringCase(text, kw_broken) \/ MatchesIgnoringCase(text, kw_not_working)
RefundRule(text) ==
  MatchesIgnoringCase(text, kw_refund) \/ MatchesIgnoringCase(text, kw_return)

OnFallback == resp.kind = "tags" /\ resp.got.path = "fallback"

\* C3: on the fallback path the rules are tried in the order late/delay,
\* broken/not working, refund/return, general; the first rule whose keyword
\* occurs in the review text, letter case ignored, decides the tags; a text
\* matching both the late and the broken rule never gets the defective-item tags.
C3_FallbackPriority ==
  OnFallback =>
    LET text == req.review_text
        tags == resp.got.tags
    IN /\ LateRule(text) => tags = <<tag_late_delivery, tag_shipping_delay>>
       /\ ~LateRule(text) /\ BrokenRule(text)
            => tags = <<tag_defective_item, tag_product_failure>>
       /\ ~LateRule(text) /\ ~BrokenRule(text) /\ RefundRule(text)
            => tags = <<tag_refund_request, tag_customer_service>>
       /\ ~LateRule(text) /\ ~BrokenRule(text) /\ ~RefundRule(text)
            => tags = <<tag_general_feedback>>
       /\ LateRule(text) /\ BrokenRule(text)
            => tags # <<tag_defective_item, tag_product_failure>>

\* a mixed-case text matching both the late and the broken rule was classified
\* by the fallback
C3_Witness ==
  /\ OnFallback
  /\ LateRule(req.review_text) /\ BrokenRule(req.review_text)
  /\ req.review_text # Lower(req.review_text)
  /\ resp.got.tags = <<tag_late_delivery, tag_shipping_delay>>

IsLowercase(s) == \A i \in 1..Len(s) : \A u \in 1..Len(UpperAlpha) : s[i] # UpperAlpha[u]
Quotes == {"\"", "'"}
IsTrimmed(s) ==
  Len(s) > 0 => s[1] \notin Whitespace \cup Quotes /\ s[Len(s)] \notin Whitespace \cup Quotes

\* C6 as stated: every tag classify returns is lowercase and trimmed of
\* surrounding quotes and whitespace, whatever the service returned.
C6_AllTagsLowercaseTrimmed ==
  resp.kind = "tags" =>
    \A i \in 1..Len(resp.got.tags) :
      IsLowercase(resp.got.tags[i]) /\ IsTrimmed(resp.got.tags[i])

\* C6 (amended): a tag of the fallback path is lowercase and trimmed of
\* surrounding quotes and whitespace; a tag of the success path is a piece of
\* the service's content, brackets removed, with its letter case unchanged, holds
\* no comma, and neither starts nor ends with a single quote.
C6_TagsAsParsed ==
  resp.kind = "tags" =>
    \A i \in 1..Len(resp.got.tags) :
      LET tag == resp.got.tags[i]
      IN /\ resp.got.path = "fallback" => IsLowercase(tag) /\ IsTrimmed(tag)
         /\ resp.got.path = "ai" =>
              /\ Contains(SelectSeq(req.outcome.content,
                                    LAMBDA ch : ch \notin {"[", "]"}), tag)
              /\ \A j \in 1..Len(tag) : tag[j] \notin {"[", "]", ","}
              /\ Len(tag) > 0 => tag[1] # "'" /\ tag[Len(tag)] # "'"

\* the success path returned a tag with an uppercase letter, a tag that still
\* starts with whitespace and a tag that still starts with a double quote
C6_Witness ==
  /\ resp.kind = "tags" /\ resp.got.path = "ai"
  /\ \E i \in 1..Len(resp.got.tags) : ~IsLowercase(resp.got.tags[i])
  /\ \E i \in 1..Len(resp.got.tags) :
       Len(resp.got.tags[i]) > 0 /\ resp.got.tags[i][1] \in Whitespace
  /\ \E i \in 1..Len(resp.got.tags) :
       Len(resp.got.tags[i]) > 0 /\ resp.got.tags[i][1] = "\""

Occurrences(tags, t) == Cardinality({p \in 1..Len(tags) : tags[p] = t})
FirstOccurrence(tags, t) ==
  CHOOSE p \in 1..Len(tags) : tags[p] = t /\ \A m \in 1..(p - 1) : tags[m] # t
DistinctTags(tags) == {tags[p] : p \in 1..Len(tags)}

\* what C7 says of top_k(tags, k) = out
TopKContract(tags, k, out) ==
  /\ Len(out) <= k
  /\ \A i, j \in 1..Len(out) : i # j => out[i][1] # out[j][1]
  /\ \A i \in 1..Len(out) :
       out[i][1] \in DistinctTags(tags) /\ out[i][2] = Occurrences(tags, out[i][1])
  /\ \A i, j \in 1..Len(out) : i < j =>
       /\ out[i][2] >= out[j][2]
       /\ out[i][2] = out[j][2] =>
            FirstOccurrence(tags, out[i][1]) < FirstOccurrence(tags, out[j][1])
  /\ \A t \in DistinctTags(tags) \ {out[i][1] : i \in 1..Len(out)} :
       \A i \in 1..Len(out) : Occurrences(tags, t) <= out[i][2]

\* the tags of the records of db, in store order
RECURSIVE FlattenedTags(_)
FlattenedTags(db) ==
  IF db = <<>> THEN <<>> ELSE db[1].tags \o FlattenedTags(Tail(db))

\* C7: top_k(tags, k) returns at most k pairs with distinct tags, each count the
\* number of occurrences of its tag, ordered by count descending, equal counts
\* in order of first occurrence, no omitted tag more frequent than a returned
\* one; the summary's top_tags is top_k with k = 3 of the stored tags flattened
\* in store order.
C7_TopK ==
  /\ resp.kind = "top" => TopKContract(req.tag_list, req.k, resp.top)
  /\ (req.op = "get_summary" /\ resp.kind = "summary")
       => TopKContract(FlattenedTags(req.db), 3, resp.top_tags)

\* top_k kept three of four tags, the last two tied
C7_Witness ==
  /\ resp.kind = "top"
  /\ req.k = 3 /\ Len(resp.top) = 3
  /\ Cardinality(DistinctTags(req.tag_list)) = 4
  /\ resp.top[1][2] > resp.top[2][2]
  /\ resp.top[2][2] = resp.top[3][2]

(* ----------------------- claims on the service ------------------------- *)
\* C1: a POST /analyze whose review_text is missing or blank is answered with
\* the missing-field error, calls no classifier, appends no record and leaves
\* what a later summary reports unchanged.
C1_BlankRejected ==
  [][(req'.op = "analyze" /\ MissingOrBlank(req'.payload)) =>
       /\ resp' = ErrorResponse
       /\ classifier_calls' = classifier_calls
       /\ reviews_db' = reviews_db
       /\ get_summary(reviews_db') = get_summary(reviews_db)]_vars

\* a whitespace-only review_text was rejected after two reviews were stored
C1_Witness ==
  /\ req.op = "analyze"
  /\ req.payload.present /\ Len(req.payload.review_text) > 0
  /\ MissingOrBlank(req.payload)
  /\ resp = ErrorResponse
  /\ Len(reviews_db) = 2 /\ classifier_calls = 2

\* C2: the summary is the no-reviews message exactly when no ingestion has
\* succeeded, and otherwise reports total_reviews equal to the number of
\* successful ingestions.
C2_SummaryCountsIngestions ==
  req.op = "summary" =>
    /\ resp.kind \in {"message", "summary"}
    /\ resp.kind = "message" <=> ingested = 0
    /\ resp.kind = "summary" => resp.total_reviews = ingested

\* a summary after two successful ingestions
C2_Witness ==
  /\ req.op = "summary" /\ resp.kind = "summary"
  /\ resp.total_reviews = 2 /\ ingested = 2

\* the rule-based result for a text, from the rules of C3
RuleTags(text) ==
  IF LateRule(text) THEN <<tag_late_delivery, tag_shipping_delay>>
  ELSE IF BrokenRule(text) THEN <<tag_defective_item, tag_product_failure>>
  ELSE IF RefundRule(text) THEN <<tag_refund_request, tag_customer_service>>
  ELSE <<tag_general_feedback>>

Configured(key) == key # None /\ key # <<>>

\* C4: with no credential, or when the external call or the handling of its
\* response fails, the ingestion answers successfully with the rule-based tags
\* of the text and appends the record.
C4_FailuresFallBack ==
  (/\ req.op = "analyze"
   /\ ~MissingOrBlank(req.payload)
   /\ ~Configured(req.key) \/ req.outcome.kind \in FailKinds)
  => /\ resp.kind = "ok"
     /\ resp.tags = RuleTags(req.payload.review_text)
     /\ Len(reviews_db) >= 1
     /\ reviews_db[Len(reviews_db)].text = resp.review_text
     /\ reviews_db[Len(reviews_db)].tags = resp.tags

\* a response without content (AttributeError) was answered by the fallback
C4_Witness ==
  /\ req.op = "analyze"
  /\ Configured(req.key) /\ req.outcome.kind = "null_content"
  /\ resp.kind = "ok"
  /\ resp.tags = <<tag_late_delivery, tag_shipping_delay>>

\* C5: every record of the store has at most 3 tags.
C5_AtMostThreeTags ==
  \A i \in 1..Len(reviews_db) : Len(reviews_db[i].tags) <= 3

\* a content of five tokens was stored as three tags
C5_Witness ==
  /\ req.op = "analyze" /\ req.outcome = Outcome("content", content_five)
  /\ resp.kind = "ok"
  /\ Len(reviews_db[Len(reviews_db)].tags) = 3

\* C8: the tags of a successful response are the tags of the appended record,
\* every successful response has its record, and each count of a summary is
\* the number of occurrences of the tag over all successful responses.
C8_TagsRoundTrip ==
  /\ Len(reviews_db) = Len(responses)
  /\ resp.kind = "ok" => reviews_db[Len(reviews_db)].tags = resp.tags
  /\ (req.op = "summary" /\ resp.kind = "summary") =>
       \A i \in 1..Len(resp.top_tags) :
         resp.top_tags[i][2] = Occurrences(Join(responses, <<>>), resp.top_tags[i][1])

\* the same review, classified with a mixed-case tag, was ingested twice and
\* the summary counts both
C8_Witness ==
  /\ req.op = "summary" /\ resp.kind = "summary"
  /\ Len(reviews_db) = 2
  /\ reviews_db[1].text = reviews_db[2].text
  /\ reviews_db[1].tags = reviews_db[2].tags
  /\ \E i \in 1..Len(resp.top_tags) :
       resp.top_tags[i][2] = 2 /\ ~IsLowercase(resp.top_tags[i][1])

IsPrefix(a, b) == Len(a) <= Len(b) /\ SubSeq(b, 1, Len(a)) = a

\* C9: the store is empty at process start and every step leaves the previous
\* contents as a prefix: a successful ingestion appends exactly one record at
\* the end, every other step leaves the store as it was.
C9_AppendOnly ==
  /\ reviews_db = <<>>
  /\ [][/\ IsPrefix(reviews_db, reviews_db')
        /\ IF req'.op = "analyze" /\ ~MissingOrBlank(req'.payload)
           THEN Len(reviews_db') = Len(reviews_db) + 1
           ELSE reviews_db' = reviews_db]_vars

\* three records, the first two different, after a rejected ingestion
C9_Witness ==
  /\ Len(reviews_db) = 3
  /\ reviews_db[1] # reviews_db[2]
  /\ req.op = "analyze" /\ resp = ErrorResponse

(* ------------------- claims on concurrent requests --------------------- *)
\* the analyze requests whose record has been appended
Appended == {c \in AnalyzeIds : pc[c] = "a78" \/ (pc[c] = "done" /\ local[c].response.kind = "ok")}

\* C10: under every interleaving the event loop allows, a summary response is
\* computed from one snapshot of the store (total_reviews, the average and
\* top_tags all describe the same prefix of fully appended records), and every
\* ingestion that reached the append is in the store exactly once.
C10_ConsistentSnapshot ==
  /\ \A c \in SummaryIds :
       (pc[c] = "done" /\ local[c].response.kind = "summary") =>
         \E n \in 1..Len(reviews_db) :
           LET snapshot == SubSeq(reviews_db, 1, n)
               r == local[c].response
           IN /\ r.total_reviews = n
              /\ r.top_tags = top_k_tags(FlattenedTags(snapshot), 3)
              /\ r.avg_processing_time = AvgTime(SumTimes(snapshot), n)
  /\ Len(owner) = Len(reviews_db)
  /\ \A i, j \in 1..Len(owner) : i # j => owner[i] # owner[j]
  /\ {owner[i] : i \in 1..Len(owner)} = Appended
  /\ \A i \in 1..Len(owner) :
       reviews_db[i] = Record(local[owner[i]].review_text, local[owner[i]].tags,
                              local[owner[i]].elapsed)

\* a summary was answered with the one stored review while another ingestion,
\* its body read, was suspended between its await and its validation
C10_Witness ==
  /\ \E c \in SummaryIds :
       /\ pc[c] = "done" /\ local[c].response.kind = "summary"
       /\ local[c].response.total_reviews = 1
  /\ Len(reviews_db) = 1
  /\ \E a \in AnalyzeIds : pc[a] = "a66"

====
